---- MODULE Spec2Model ----
(***************************************************************************)
(* A model of the Tagalog stemmer (tglstemmer): the candidate cascade of   *)
(* stemmer.py (stem_dup, stem_pre, stem_rep, stem_inf, stem_rep, stem_suf, *)
(* stem_dup), the filter of get_stem_candidates and the selector of        *)
(* get_stem, together with the helpers of helpers/validation.py and        *)
(* helpers/manipulation.py and the Stem record of stem.py.                 *)
(*                                                                         *)
(* A string is a sequence of one-character strings.  A Stem is a record:   *)
(* its text and its ten annotations.  Python's None is <<>> for the        *)
(* string-valued annotations, "" for the tags and FALSE for metathesis;    *)
(* the code only ever reads an annotation through its truth value or its   *)
(* length (stem.py 53-78, stemmer.py 71), under which None and the empty   *)
(* string agree.                                                           *)
(***************************************************************************)
EXTENDS Integers, Sequences, FiniteSets, TLC

VARIABLES raw, valid_words, token, stems, stage, pc, candidates, result, ret

vars == <<raw, valid_words, token, stems, stage, pc, candidates, result, ret>>

----------------------------------------------------------------------------
(* Bounds of the model.                                                    *)

\* longest generated input token
MaxLen == 4

\* largest lexicon drawn from LexWords
MaxLexSize == 2

----------------------------------------------------------------------------
(* Python strings.                                                         *)

Min(a, b) == IF a < b THEN a ELSE b

Max(a, b) == IF a > b THEN a ELSE b

\* s[a:b] with 0 <= a, 0 <= b: a slice never raises, it clamps
Slice(s, a, b) == SubSeq(s, a + 1, Min(b, Len(s)))

\* s[a:]
From(s, a) == SubSeq(s, a + 1, Len(s))

\* s[:-k]
DropLast(s, k) == SubSeq(s, 1, Len(s) - k)

\* s[-k:] for k <= len(s) or not: Python clamps
Last(s, k) == SubSeq(s, Max(1, Len(s) - k + 1), Len(s))

StartsWith(s, p) == Len(p) <= Len(s) /\ SubSeq(s, 1, Len(p)) = p

EndsWith(s, p) == Len(p) <= Len(s) /\ SubSeq(s, Len(s) - Len(p) + 1, Len(s)) = p

\* the elements of a sequence
Range(s) == {s[i] : i \in 1..Len(s)}

\* the concatenation of a sequence of sequences
RECURSIVE Flatten(_)
Flatten(ss) == IF ss = <<>> THEN <<>> ELSE Head(ss) \o Flatten(Tail(ss))

\* the strings over the alphabet A of length exactly n
RECURSIVE StringsOfLen(_, _)
StringsOfLen(A, n) ==
  IF n = 0 THEN {<<>>}
  ELSE {<<c>> \o s : c \in A, s \in StringsOfLen(A, n - 1)}

----------------------------------------------------------------------------
(* helpers/alphabet.py (imported by validation.py line 1 and stemmer.py    *)
(* line 11): the vowels and consonants of the orthography.                 *)

VOWELS == <<"a", "e", "i", "o", "u">>

CONSONANTS ==
  <<"b", "c", "d", "f", "g", "h", "j", "k", "l", "m", "n", "p", "q", "r",
    "s", "t", "v", "w", "x", "y", "z">>

\* str.lower() and str.strip() on the characters the inputs are drawn from
UPPER == [A |-> "a", P |-> "p", R |-> "r"]

LowerChar(c) == IF c \in DOMAIN UPPER THEN UPPER[c] ELSE c

lower(s) == [i \in 1..Len(s) |-> LowerChar(s[i])]

RECURSIVE lstrip(_)
lstrip(s) == IF s # <<>> /\ Head(s) = " " THEN lstrip(Tail(s)) ELSE s

RECURSIVE rstrip(_)
rstrip(s) ==
  IF s # <<>> /\ s[Len(s)] = " " THEN rstrip(SubSeq(s, 1, Len(s) - 1)) ELSE s

strip(s) == rstrip(lstrip(s))

----------------------------------------------------------------------------
(* stem.py: the Stem record.                                               *)

None == <<>>

Stem(text) ==
  [text |-> text, pre |-> None, inf |-> None, suf |-> None, rep |-> None,
   dup |-> None, contraction |-> None, phoneme_change |-> "",
   assimilation |-> "", vowel_loss |-> "", metathesis |-> FALSE]

count_affixes(c) == Len(c.pre) + Len(c.inf) + Len(c.suf)

count_reduplication(c) == Len(c.rep) + Len(c.dup)

count_transformations(c) ==
  (IF c.phoneme_change # "" THEN 1 ELSE 0)
  + (IF c.assimilation # "" THEN 1 ELSE 0)
  + (IF c.vowel_loss # "" THEN 1 ELSE 0)
  + (IF c.metathesis THEN 1 ELSE 0)

\* Stem.__getitem__ on the slice [a:]: the new text, the annotations of self
StemFrom(c, a) == [c EXCEPT !.text = From(@, a)]

\* Stem.__radd__: other + self keeps the annotations of self
StemRadd(s, c) == [c EXCEPT !.text = s \o @]

----------------------------------------------------------------------------
(* helpers/manipulation.py: index may be negative (from the end).          *)

PyIndex(s, i) == IF i < 0 THEN Len(s) + i + 1 ELSE i + 1

replace_letter(c, index, letter) ==
  [c EXCEPT !.text = [@ EXCEPT ![PyIndex(@, index)] = letter]]

swap_letters(c, index1, index2) ==
  LET t == c.text
      i == PyIndex(t, index1)
      j == PyIndex(t, index2)
  IN [c EXCEPT !.text = [t EXCEPT ![i] = t[j], ![j] = t[i]]]

----------------------------------------------------------------------------
(* helpers/validation.py                                                   *)

\* the lexicon argument: None, or a list of words (held as a set: the code
\* only tests membership and emptiness)
NoLexicon == [absent |-> TRUE, words |-> {}]

Lexicon(ws) == [absent |-> FALSE, words |-> ws]

is_vowel(s) == \A i \in 1..Len(s) : s[i] \in Range(VOWELS)

is_consonant(s) == \A i \in 1..Len(s) : s[i] \in Range(CONSONANTS)

\* "if not valid_words: return token" is taken by None and by the empty list
\* is_valid that never consults the lexicon
is_valid_unchecked(text, lex) == TRUE

is_valid(text, lex) ==
  IF lex.absent \/ lex.words = {} THEN TRUE
  ELSE text \in lex.words

\* the truth value of what is_valid returns: the token itself (falsy when
\* it is the empty string) or False
is_valid_truthy(text, lex) == is_valid(text, lex) /\ text # <<>>

\* is_acceptable with the vowel branch taking every length from 2
is_acceptable_any_length(text) ==
  IF is_vowel(<<text[1]>>)
  THEN Len(text) >= 2
  ELSE IF is_consonant(<<text[1]>>)
  THEN Len(text) = 3
       \/ (Len(text) >= 4 /\ \E i \in 1..Len(text) : is_vowel(<<text[i]>>))
  ELSE FALSE

\* is_acceptable with "not is_consonant" for the first test
is_acceptable_nonconsonant(text) ==
  IF ~is_consonant(<<text[1]>>)
  THEN Len(text) = 2
       \/ (Len(text) >= 3 /\ \E i \in 1..Len(text) : is_consonant(<<text[i]>>))
  ELSE Len(text) = 3
       \/ (Len(text) >= 4 /\ \E i \in 1..Len(text) : is_vowel(<<text[i]>>))

\* defined for a non-empty text: token[0] raises IndexError on the empty one
is_acceptable(text) ==
  IF is_vowel(<<text[1]>>)
  THEN Len(text) = 2
       \/ (Len(text) >= 3 /\ \E i \in 1..Len(text) : is_consonant(<<text[i]>>))
  ELSE IF is_consonant(<<text[1]>>)
  THEN Len(text) = 3
       \/ (Len(text) >= 4 /\ \E i \in 1..Len(text) : is_vowel(<<text[i]>>))
  ELSE FALSE

----------------------------------------------------------------------------
(* helpers/affixes.py: the three affix lists, sorted by length (a stable   *)
(* sort of the lines of the resource files).  The lists hold the affixes   *)
(* that the rules of stemmer.py and the words of                           *)
(* tests/test_stemmer_functions.py name.                                   *)

PREFIXES == <<<<"p", "a">>, <<"p", "a", "m">>, <<"p", "a", "n">>,
              <<"p", "a", "n", "g">>>>

INFIXES == <<<<"i", "n">>>>

SUFFIXES == <<<<"g">>, <<"a", "n">>, <<"i", "n">>, <<"n", "g">>,
              <<"'", "t">>, <<"'", "y">>>>

----------------------------------------------------------------------------
(* The rule families.  Each <rule>_one gives what the body of the rule's   *)
(* loop does for one token (and one affix): out, the stems it adds to the  *)
(* rule's local set in the order it adds them, and err, whether the body   *)
(* raises IndexError.                                                      *)

Emit(seq) == [out |-> seq, err |-> FALSE]

Raise == [out |-> <<>>, err |-> TRUE]

When(cond, seq) == IF cond THEN seq ELSE <<>>

\* one record of the results of a loop: the outputs in order, any raise
Collect(rs) ==
  [out |-> Flatten([i \in 1..Len(rs) |-> rs[i].out]),
   err |-> \E i \in 1..Len(rs) : rs[i].err]

\* for l in letters: l + stem, assimilation = tag + l
Assimilate(stem, letters, tag) ==
  [i \in 1..Len(letters) |->
     [StemRadd(<<letters[i]>>, stem) EXCEPT !.assimilation = tag \o letters[i]]]

\* the b/p block without the test of line 185: any remainder of a prefix
\* in "m" is given "b" and "p"
stem_pre_assimilation_any_stem(stem, prefix) ==
  IF EndsWith(prefix, <<"m">>) THEN Assimilate(stem, <<"b", "p">>, "b/p: ")
  ELSE <<>>

\* stem_pre, lines 184-251: the assimilation block, stem not empty
stem_pre_assimilation(stem, prefix) ==
  LET s == stem.text
      n == Len(s)
  IN IF ~(is_acceptable(s) /\ is_vowel(<<s[1]>>)) THEN <<>>
     ELSE IF EndsWith(prefix, <<"n", "g">>)
     THEN LET stem_ng_rep == [StemFrom(stem, 3) EXCEPT !.rep = Slice(s, 0, 3)]
          IN <<[StemRadd(<<"k">>, stem) EXCEPT !.assimilation = "k/null"]>>
             \o When(n > 3 /\ Slice(s, 1, 3) = <<"n", "g">> /\ s[1] = s[4]
                       /\ is_vowel(<<s[1]>>),
                     <<stem_ng_rep>>
                     \o When(is_acceptable(stem_ng_rep.text),
                             <<[StemRadd(<<"k">>, stem_ng_rep)
                                  EXCEPT !.assimilation = "k/null"]>>))
     ELSE IF EndsWith(prefix, <<"m">>)
     THEN Assimilate(stem, <<"b", "p">>, "b/p: ")
          \o When(n > 2 /\ s[2] = "m" /\ s[1] = s[3] /\ is_vowel(<<s[1]>>),
                  Assimilate(StemFrom(stem, 2), <<"b", "p">>, "b/p: "))
     ELSE IF EndsWith(prefix, <<"n">>)
     THEN Assimilate(stem, <<"d", "s", "t">>, "d/s/t: ")
          \o When(n > 2 /\ EndsWith(prefix, <<"n">>) /\ s[2] = "n"
                    /\ s[1] = s[3] /\ is_vowel(<<s[1]>>),
                  Assimilate(StemFrom(stem, 2), <<"d", "s", "t">>, "d/s/t: "))
     ELSE <<>>

\* stem_pre, lines 169-251: one token and one prefix
stem_pre_one(tok, prefix) ==
  IF ~(StartsWith(tok.text, prefix) /\ Len(tok.text) > Len(prefix))
  THEN Emit(<<>>)
  ELSE LET stem0 == [StemFrom(tok, Len(prefix)) EXCEPT !.pre = prefix]
           stem == IF stem0.text[1] = "-" THEN StemFrom(stem0, 1) ELSE stem0
           s == stem.text
       IN IF s = <<>> THEN Raise                        \* stem[0], line 179
          ELSE IF s[1] = "r" /\ Len(s) < 2 THEN Raise    \* stem[1], line 179
          ELSE Emit(
            <<stem>>
            \o When(s[1] = "r" /\ is_vowel(<<prefix[Len(prefix)], s[2]>>),
                    <<[StemRadd(<<"d">>, StemFrom(stem, 1))
                         EXCEPT !.phoneme_change = "pre: d/r"]>>)
            \o stem_pre_assimilation(stem, prefix))

stem_pre_token(tok) ==
  Collect([i \in 1..Len(PREFIXES) |-> stem_pre_one(tok, PREFIXES[i])])

\* stem_inf, lines 269-305: one token and one infix
stem_inf_one(tok, infix) ==
  LET t == tok.text
      n == Len(t)
  IN IF ~(n > Len(infix) + 1) THEN Emit(<<>>)
     ELSE IF StartsWith(t, infix) /\ n < 3 THEN Raise   \* token[2], line 273
     ELSE IF StartsWith(t, infix) /\ is_vowel(<<t[3]>>)
     THEN Emit(<<[StemFrom(tok, 2) EXCEPT !.inf = infix]>>)
     ELSE IF n > 3 /\ Slice(t, 1, 3) = infix /\ is_consonant(<<t[1]>>)
             /\ is_vowel(<<t[4]>>)
     THEN Emit(<<[tok EXCEPT !.text = <<t[1]>> \o From(t, 3), !.inf = infix]>>)
     ELSE IF n > 4 /\ Slice(t, 2, 4) = infix /\ is_consonant(Slice(t, 0, 2))
             /\ is_vowel(<<t[5]>>)
     THEN Emit(<<[tok EXCEPT !.text = Slice(t, 0, 2) \o From(t, 4),
                             !.inf = infix]>>)
     ELSE IF n > 5 /\ Slice(t, 3, 5) = infix /\ is_consonant(Slice(t, 0, 3))
             /\ is_vowel(<<t[6]>>)
     THEN Emit(<<[tok EXCEPT !.text = Slice(t, 0, 3) \o From(t, 5),
                             !.inf = infix]>>)
     ELSE Emit(<<>>)

stem_inf_token(tok) ==
  Collect([i \in 1..Len(INFIXES) |-> stem_inf_one(tok, INFIXES[i])])

\* stem_vowel_loss, lines 407-419, for one token: only lexicon-valid forms
stem_vowel_loss(tok, lex) ==
  LET t == tok.text
      n == Len(t)
  IN Flatten([i \in 1..Len(VOWELS) |->
       LET vowel == VOWELS[i]
           stem1 == t \o <<vowel>>
           stem2 == DropLast(t, 1) \o <<vowel, t[n]>>
       IN When(n > 1 /\ is_valid_truthy(stem1, lex),
               <<[tok EXCEPT !.text = stem1, !.vowel_loss = vowel]>>)
          \o When(n > 2 /\ is_valid_truthy(stem2, lex),
                  <<[tok EXCEPT !.text = stem2, !.vowel_loss = vowel]>>)])

CONTRACTIONS == {<<"n", "g">>, <<"g">>, <<"'", "t">>, <<"'", "y">>}

\* a skip of the suffix "g" after "n" instead of after any other letter
stem_suf_skip_after_n(s, suffix) ==
  /\ suffix \in CONTRACTIONS
  /\ \/ suffix = <<"g">> /\ s[Len(s)] = "n"
     \/ suffix \in {<<"'", "t">>, <<"'", "y">>} /\ ~is_vowel(<<s[Len(s)]>>)

\* stem_suf, lines 327-334: the suffix is skipped ("continue")
stem_suf_skip(s, suffix) ==
  /\ suffix \in CONTRACTIONS
  /\ \/ suffix = <<"g">> /\ s[Len(s)] # "n"
     \/ suffix \in {<<"'", "t">>, <<"'", "y">>} /\ ~is_vowel(<<s[Len(s)]>>)

\* stem_suf, lines 348-370: u => o (letter "u", by "o") and i => e
stem_suf_phoneme(stem, from, to, tag) ==
  LET s == stem.text
      n == Len(s)
  IN IF n > 1 /\ s[n] = from
     THEN <<[replace_letter(stem, -1, to) EXCEPT !.phoneme_change = tag]>>
     ELSE IF n > 2 /\ s[n - 1] = from
     THEN <<[replace_letter(stem, -2, to) EXCEPT !.phoneme_change = tag]>>
     ELSE <<>>

\* stem_suf_cluster that keeps the swapped form only: no vowel loss on it
stem_suf_cluster_swap_only(stem, lex) ==
  LET s == stem.text
      stem_mtts == [swap_letters(stem, -1, -2) EXCEPT !.metathesis = TRUE]
  IN IF ~(Len(s) > 2 /\ is_acceptable(s) /\ is_consonant(Last(s, 2))) THEN <<>>
     ELSE stem_vowel_loss(stem, lex)
          \o When(is_valid_truthy(stem_mtts.text, lex), <<stem_mtts>>)

\* stem_suf, lines 372-387: vowel loss and metathesis
stem_suf_cluster(stem, lex) ==
  LET s == stem.text
      stem_mtts == [swap_letters(stem, -1, -2) EXCEPT !.metathesis = TRUE]
  IN IF ~(Len(s) > 2 /\ is_acceptable(s) /\ is_consonant(Last(s, 2))) THEN <<>>
     ELSE stem_vowel_loss(stem, lex)
          \o (IF is_valid_truthy(stem_mtts.text, lex) THEN <<stem_mtts>>
              ELSE stem_vowel_loss(stem_mtts, lex))

\* stem_suf, lines 325-387: one token and one suffix
stem_suf_one(tok, suffix, lex) ==
  LET t == tok.text
      s == DropLast(t, Len(suffix))
      stem == IF suffix \in CONTRACTIONS
              THEN [tok EXCEPT !.text = s, !.contraction = suffix]
              ELSE [tok EXCEPT !.text = s, !.suf = suffix]
  IN IF ~(EndsWith(t, suffix) /\ Len(t) > Len(suffix)) THEN Emit(<<>>)
     ELSE IF stem_suf_skip(s, suffix) THEN Emit(<<>>)
     ELSE Emit(
       <<stem>>
       \o When(suffix \in {<<"i", "n">>, <<"a", "n">>} /\ s[Len(s)] = "r",
               <<[replace_letter(stem, -1, "d")
                    EXCEPT !.phoneme_change = "suf: d/r"]>>)
       \o stem_suf_phoneme(stem, "u", "o", "suf: o/u")
       \o stem_suf_phoneme(stem, "i", "e", "suf: e/i")
       \o stem_suf_cluster(stem, lex))

stem_suf_token(tok, lex) ==
  Collect([i \in 1..Len(SUFFIXES) |-> stem_suf_one(tok, SUFFIXES[i], lex)])

\* stem_rep, e.g. lines 445-446: the first k characters are the repetition
stem_rep_strip_unmarked(tok, k) == StemFrom(tok, k)

stem_rep_strip(tok, k) == [StemFrom(tok, k) EXCEPT !.rep = Slice(tok.text, 0, k)]

\* stem_rep, lines 439-476: the first chain (V-V, CV-CV, 2-consonant cluster)
stem_rep_first(tok) ==
  LET t == tok.text
      n == Len(t)
      rep2 == <<stem_rep_strip(tok, 2)>>
      rep3 == <<stem_rep_strip(tok, 3)>>
  IN IF n > 2 /\ t[1] = t[2] /\ is_vowel(Slice(t, 0, 2))
     THEN <<stem_rep_strip(tok, 1)>>
     ELSE IF n > 4 /\ Slice(t, 0, 2) = Slice(t, 2, 4) /\ is_consonant(<<t[1]>>)
     THEN rep2
     ELSE IF n > 5
     THEN IF t[1] = t[3] /\ t[2] = t[5] /\ is_consonant(<<t[1]>>)
             /\ is_vowel(<<t[2]>>)
          THEN rep2
          ELSE IF Slice(t, 0, 2) = Slice(t, 2, 4) /\ is_consonant(Slice(t, 0, 2))
                  /\ is_vowel(<<t[5]>>)
          THEN rep2
          ELSE IF Slice(t, 0, 2) = Slice(t, 3, 5) /\ is_consonant(Slice(t, 0, 2))
                  /\ is_vowel(<<t[3]>>)
          THEN rep3
          ELSE <<>>
     ELSE <<>>

\* stem_rep, lines 479-525: the second chain (3-consonant cluster); its
\* "if" is not an "elif", so a match here replaces the first chain's stem
stem_rep_second(tok) ==
  LET t == tok.text
      n == Len(t)
      rep2 == <<stem_rep_strip(tok, 2)>>
      rep3 == <<stem_rep_strip(tok, 3)>>
      rep4 == <<stem_rep_strip(tok, 4)>>
  IN IF ~(n > 6) THEN <<>>
     ELSE IF t[1] = t[3] /\ t[2] = t[6] /\ is_consonant(<<t[1]>>)
             /\ is_vowel(<<t[2]>>)
     THEN rep2
     ELSE IF Slice(t, 0, 2) = Slice(t, 2, 4) /\ is_consonant(Slice(t, 0, 2))
             /\ is_vowel(<<t[6]>>)
     THEN rep2
     ELSE IF Slice(t, 0, 2) = Slice(t, 3, 5) /\ t[3] = t[7]
             /\ is_consonant(Slice(t, 0, 2)) /\ is_vowel(<<t[7]>>)
     THEN rep3
     ELSE IF Slice(t, 0, 3) = Slice(t, 3, 6) /\ is_consonant(Slice(t, 0, 3))
             /\ is_vowel(<<t[7]>>)
     THEN rep3
     ELSE IF Slice(t, 0, 4) = Slice(t, 4, 8) /\ is_consonant(Slice(t, 0, 3))
             /\ is_vowel(<<t[4]>>)
     THEN rep4
     ELSE <<>>

\* stem_rep, lines 435-528: one token; "if stem: stems.add(stem)"
stem_rep_token(tok) ==
  LET second == stem_rep_second(tok)
      stem == IF second # <<>> THEN second ELSE stem_rep_first(tok)
  IN Emit(When(stem # <<>> /\ stem[1].text # <<>>, stem))

\* stem_dup, lines 584-619: a 2-character contraction ends the first part
stem_dup_contraction2(tok, first, second) ==
  LET f == Len(first)
      stem == [tok EXCEPT !.text = second, !.dup = second]
  IN IF DropLast(first, 2) = second
     THEN <<[stem EXCEPT !.contraction = Last(first, 2)]>>
     ELSE IF first[f - 2] = "u" /\ DropLast(first, 3) \o <<"o">> = second
     THEN <<[stem EXCEPT !.contraction = Last(first, 2)]>>
     ELSE IF Last(first, 2) = <<"n", "g">>
     THEN IF DropLast(first, 1) = second
          THEN <<[stem EXCEPT !.contraction = <<first[f]>>]>>
          ELSE IF first[f - 2] = "u"
                  /\ replace_letter(Stem(DropLast(first, 1)), -2, "o").text = second
          THEN <<[stem EXCEPT !.contraction = <<first[f]>>,
                              !.phoneme_change = "dup: o/u"]>>
          ELSE <<>>
     ELSE <<>>

\* stem_dup, lines 622-637: a 1-character contraction ends the first part
stem_dup_contraction1(tok, first, second) ==
  LET f == Len(first)
      stem == [tok EXCEPT !.text = second, !.dup = second]
  IN IF DropLast(first, 1) = second
     THEN <<[stem EXCEPT !.contraction = <<first[f]>>]>>
     ELSE IF first[f - 1] = "u" /\ DropLast(first, 2) \o <<"o">> = second
     THEN <<[stem EXCEPT !.contraction = <<first[f]>>,
                         !.phoneme_change = "dup: o/u"]>>
     ELSE <<>>

\* stem_dup, lines 554-637: the two parts of a token with one inner hyphen
stem_dup_parts(tok, first, second) ==
  LET f == Len(first)
  IN IF ~(f > 1 /\ Len(second) > 1) THEN <<>>
     ELSE IF first = second
     THEN <<[tok EXCEPT !.text = first, !.dup = first]>>
     ELSE IF f > 2 /\ Len(second) > 4 /\ StartsWith(second, first)
     THEN <<[tok EXCEPT !.text = second, !.dup = first]>>
     ELSE IF \/ /\ f > 2
                /\ first[f] = "u"
                /\ replace_letter(Stem(first), -1, "o").text = second
             \/ /\ first[f - 1] = "u"
                /\ replace_letter(Stem(first), -2, "o").text = second
     THEN <<[tok EXCEPT !.text = second, !.dup = second,
                        !.phoneme_change = "dup: o/u"]>>
     ELSE IF f > 3 /\ Last(first, 2) \in {<<"n", "g">>, <<"'", "t">>}
     THEN stem_dup_contraction2(tok, first, second)
     ELSE IF f > 2 /\ first[f] = "t"
     THEN stem_dup_contraction1(tok, first, second)
     ELSE <<>>

\* stem_dup, lines 546-552: exactly one hyphen, at neither end
stem_dup_token(tok) ==
  LET t == tok.text
      n == Len(t)
      hyphens == {i \in 1..n : t[i] = "-"}
  IN IF n > 0 /\ Cardinality(hyphens) = 1 /\ t[1] # "-" /\ t[n] # "-"
     THEN LET h == CHOOSE i \in hyphens : TRUE
          IN Emit(stem_dup_parts(tok, SubSeq(t, 1, h - 1), SubSeq(t, h + 1, n)))
     ELSE Emit(<<>>)

----------------------------------------------------------------------------
(* One rule over the frontier.  The rule's local set and the frontier are  *)
(* Python sets of Stem, hashed and compared as str: one record a text, the *)
(* first one added.  The rule iterates the frontier in the set's order,    *)
(* which the string hash (randomised per process) decides: any order.      *)

\* what a set keeps of the stems added in this order
FirstByText(seq) ==
  {seq[i] : i \in {j \in 1..Len(seq) :
                     \A k \in 1..(j - 1) : seq[k].text # seq[j].text}}

Texts(S) == {c.text : c \in S}

\* the records of text x among those the tokens of E add
Variants(E, x) == {c \in UNION {E[t] : t \in DOMAIN E} : c.text = x}

\* the texts new to the frontier F whose record depends on the order
ConflictTexts(E, F) ==
  {x \in Texts(UNION {E[t] : t \in DOMAIN E}) \ Texts(F) :
     Cardinality(Variants(E, x)) > 1}

ConflictTokens(E, F) ==
  {t \in DOMAIN E : Texts(E[t]) \cap ConflictTexts(E, F) # {}}

\* the iteration orders of the tokens T, as ranks
Orders(T) ==
  {f \in [T -> 1..Cardinality(T)] : \A a, b \in T : a # b => f[a] # f[b]}

\* the record of text x that the rule's set keeps under the order ord
Winner(E, ord, x) ==
  LET emitters == {t \in DOMAIN ord : x \in Texts(E[t])}
      first == CHOOSE t \in emitters : \A u \in emitters : ord[t] <= ord[u]
  IN CHOOSE c \in E[first] : c.text = x

\* an update in which the rule's records replace the frontier's records of
\* the same text
Update_replacing(F, E, ord) ==
  LET conflict == ConflictTexts(E, F)
      emitted == UNION {E[t] : t \in DOMAIN E}
      fresh == {c \in emitted : c.text \notin Texts(F) /\ c.text \notin conflict}
      kept == {c \in F : c.text \notin Texts(emitted)}
      again == {CHOOSE d \in emitted : d.text = x : x \in Texts(emitted) \cap Texts(F)}
  IN kept \cup again \cup fresh \cup {Winner(E, ord, x) : x \in conflict}

\* tokens.update(f(tokens)), lines 148-153: the frontier keeps its records,
\* and gains the rule's records of the texts it did not have
Update(F, E, ord) ==
  LET conflict == ConflictTexts(E, F)
      fresh == {c \in UNION {E[t] : t \in DOMAIN E} :
                  c.text \notin Texts(F) /\ c.text \notin conflict}
  IN F \cup fresh \cup {Winner(E, ord, x) : x \in conflict}

\* the orders in which an affix list can be given
Orderings(list) ==
  LET n == Len(list)
      perms == {q \in [1..n -> 1..n] : \A i, j \in 1..n : i # j => q[i] # q[j]}
  IN {[i \in 1..n |-> list[q[i]]] : q \in perms}

PrefixOrders == Orderings(PREFIXES)

InfixOrders == Orderings(INFIXES)

SuffixOrders == Orderings(SUFFIXES)

\* the loops "for prefix in PREFIXES", "for infix in INFIXES" and "for suffix
\* in SUFFIXES" over a list given in another order
stem_pre_in(tok, prefixes) ==
  Collect([i \in 1..Len(prefixes) |-> stem_pre_one(tok, prefixes[i])])

stem_inf_in(tok, infixes) ==
  Collect([i \in 1..Len(infixes) |-> stem_inf_one(tok, infixes[i])])

stem_suf_in(tok, suffixes, lex) ==
  Collect([i \in 1..Len(suffixes) |-> stem_suf_one(tok, suffixes[i], lex)])

\* the rules of get_stem_candidates, lines 101-109, in order
FUNCTIONS ==
  <<"stem_dup", "stem_pre", "stem_rep", "stem_inf", "stem_rep", "stem_suf",
    "stem_dup">>

\* apply_stemming, lines 149-152: what the rule named f does for one token
rule_token(f, tok, lex) ==
  CASE f = "stem_dup" -> stem_dup_token(tok)
    [] f = "stem_pre" -> stem_pre_token(tok)
    [] f = "stem_rep" -> stem_rep_token(tok)
    [] f = "stem_inf" -> stem_inf_token(tok)
    [] f = "stem_suf" -> stem_suf_token(tok, lex)

\* sort_candidates, lines 122-131, of a list built by iterating a set: the
\* candidates that can come first, those of the highest score (sorted is
\* stable, and the order it is given is the set's order)
Score(c) == count_affixes(c) + count_reduplication(c)

\* sort_candidates without reverse=True
sort_candidates_ascending(cs) == {c \in cs : \A d \in cs : Score(c) <= Score(d)}

sort_candidates_first(cs) == {c \in cs : \A d \in cs : Score(c) >= Score(d)}

\* Selected with the second and third preference exchanged
Selected_transformations_first(cs) ==
  LET no_transformations == {c \in cs : count_transformations(c) = 0}
      no_contractions == {c \in cs : c.contraction = None}
  IN IF no_transformations \cap no_contractions # {}
     THEN no_transformations \cap no_contractions
     ELSE IF no_transformations # {} THEN no_transformations
     ELSE IF no_contractions # {} THEN no_contractions
     ELSE cs

\* get_stem, lines 64-80: the list the returned stem is sorted out of
Selected(cs) ==
  LET no_transformations == {c \in cs : count_transformations(c) = 0}
      no_contractions == {c \in cs : c.contraction = None}
  IN IF no_transformations \cap no_contractions # {}
     THEN no_transformations \cap no_contractions
     ELSE IF no_contractions # {} THEN no_contractions
     ELSE IF no_transformations # {} THEN no_transformations
     ELSE cs

----------------------------------------------------------------------------
(* The inputs: every string over Sigma up to MaxLen characters with every  *)
(* lexicon of up to MaxLexSize of the words LexWords, no lexicon, and the  *)
(* empty lexicon; and the words of Corpus, each with its lexicon.          *)

Sigma == {"a", "p", "r", "-", "1"}

Generated == UNION {StringsOfLen(Sigma, n) : n \in 0..MaxLen}

LexWords == {<<"a", "p">>, <<"a", "a", "p">>, <<"r", "a", "p">>}

Lexicons ==
  {NoLexicon}
  \cup {Lexicon(ws) : ws \in {w \in SUBSET LexWords : Cardinality(w) <= MaxLexSize}}

Corpus ==
  {[raw |-> <<" ", "P", "a", "r", "a", "p", " ">>,
    lex |-> NoLexicon],
   [raw |-> <<"P", "A", "R">>,
    lex |-> NoLexicon],
   [raw |-> <<"p", "a", "a", "a", "p">>,
    lex |-> NoLexicon],
   [raw |-> <<"p", "a", "a", "a", "p">>,
    lex |-> Lexicon({<<"a", "a", "p">>, <<"a", "p">>})],
   [raw |-> <<"b", "i", "b", "i", "l", "i">>,
    lex |-> Lexicon({<<"b", "i", "l", "i">>, <<"b", "i", "b", "i", "l", "i">>})],
   [raw |-> <<"b", "i", "b", "i", "l", "i">>,
    lex |-> NoLexicon],
   [raw |-> <<"t", "a", "m", "n", "i", "n">>,
    lex |-> Lexicon({<<"t", "a", "n", "i", "m">>})],
   [raw |-> <<"b", "u", "k", "s", "a", "n">>,
    lex |-> Lexicon({<<"b", "u", "k", "a", "s">>})],
   [raw |-> <<"i", "n", "u", "m", "a", "n">>,
    lex |-> Lexicon({<<"i", "n", "o", "m">>})],
   [raw |-> <<"b", "a", "y", "a", "r", "a", "n">>,
    lex |-> Lexicon({<<"b", "a", "y", "a", "d">>})],
   [raw |-> <<"s", "i", "n", "u", "l", "a", "t">>,
    lex |-> Lexicon({<<"s", "u", "l", "a", "t">>})],
   [raw |-> <<"s", "p", "l", "i", "n", "i", "t">>,
    lex |-> Lexicon({<<"s", "p", "l", "i", "t">>})],
   [raw |-> <<"p", "a", "m", "i", "g", "a", "y">>,
    lex |-> Lexicon({<<"b", "i", "g", "a", "y">>})],
   [raw |-> <<"p", "a", "n", "g", "a", "i", "l", "a", "n", "g", "a", "n">>,
    lex |-> Lexicon({<<"k", "a", "i", "l", "a", "n", "g", "a", "n">>})],
   [raw |-> <<"p", "a", "n", "a", "h", "i">>,
    lex |-> Lexicon({<<"t", "a", "h", "i">>})],
   [raw |-> <<"a", "n", "o", "-", "a", "n", "o">>,
    lex |-> NoLexicon],
   [raw |-> <<"a", "n", "u", "-", "a", "n", "o">>,
    lex |-> NoLexicon],
   [raw |-> <<"i", "b", "a", "'", "t", "-", "i", "b", "a">>,
    lex |-> Lexicon({<<"i", "b", "a">>})],
   [raw |-> <<"i", "b", "a", "'", "t", "-", "i", "b", "a">>,
    lex |-> NoLexicon],
   [raw |-> <<"l", "a", "r", "u", "n", "g", "-", "l", "a", "r", "o">>,
    lex |-> Lexicon({<<"l", "a", "r", "o">>})],
   [raw |-> <<"a", "t", "i", "n", "g", "-", "a", "t", "i", "n">>,
    lex |-> Lexicon({<<"a", "t", "i", "n">>})],
   [raw |-> <<"h", "a", "p", "u", "n", "g", "-", "h", "a", "p", "o", "n">>,
    lex |-> Lexicon({<<"h", "a", "p", "o", "n">>})],
   [raw |-> <<"l", "i", "b", "u", "t", "-", "l", "i", "b", "o">>,
    lex |-> Lexicon({<<"l", "i", "b", "o">>})],
   [raw |-> <<"p", "a", "n", "g", "a", "-", "p", "a", "n", "g", "a", "k", "o">>,
    lex |-> Lexicon({<<"p", "a", "n", "g", "a", "k", "o">>})],
   [raw |-> <<"s", "p", "l", "i", "s", "p", "l", "i", "t">>,
    lex |-> Lexicon({<<"s", "p", "l", "i", "t">>})],
   [raw |-> <<"c", "h", "e", "c", "h", "e", "c", "k">>,
    lex |-> Lexicon({<<"c", "h", "e", "c", "k">>})],
   [raw |-> <<"k", "a", "i", "n", "g">>,
    lex |-> NoLexicon],
   [raw |-> <<"b", "a", "g", "o", "n", "g">>,
    lex |-> Lexicon({<<"b", "a", "g", "o">>})],
   [raw |-> <<"a", "k", "o", "'", "y">>,
    lex |-> NoLexicon],
   [raw |-> <<"p", "a", "b", "1", "b">>,
    lex |-> NoLexicon],
   [raw |-> <<"1", "2", "-", "1", "2">>,
    lex |-> NoLexicon],
   [raw |-> <<"p", "a", "r", "a", "n", "g">>,
    lex |-> Lexicon({<<"d", "a", "n", "g">>, <<"p", "a", "r", "a", "n">>})],
   [raw |-> <<"i", "n", "i", "n", "n", "g">>,
    lex |-> NoLexicon],
   [raw |-> <<"p", "a", "n", "n", "g", "n", "g">>,
    lex |-> NoLexicon],
   [raw |-> <<"p", "a", "m", "p", "a", "t", "u", "l", "o", "g">>,
    lex |-> Lexicon({<<"t", "u", "l", "o", "g">>,
                     <<"p", "a", "t", "u", "l", "o", "g">>})],
   [raw |-> <<"p", "a", "m", "p", "a", "t", "u", "l", "o", "g">>,
    lex |-> NoLexicon]}

\* longest generated part (remainder of an affix, half of a reduplication)
MaxPart == 3

\* longest generated token of repeated letters
MaxRepLen == 7

StringsUpTo(A, lo, hi) == UNION {StringsOfLen(A, n) : n \in lo..hi}

StemInputs == StringsUpTo({"a", "i", "k", "n"}, 1, MaxPart)

PreInputs ==
  {PREFIXES[i] \o s : i \in 1..Len(PREFIXES),
                      s \in StringsUpTo({"a", "m", "k", "r"}, 1, MaxPart)}

SufInputs == {s \o SUFFIXES[i] : s \in StemInputs, i \in 1..Len(SUFFIXES)}

DupEndings == {<<>>, <<"n", "g">>, <<"'", "t">>, <<"t">>}

DupInputs ==
  {f \o e \o <<"-">> \o s : f \in StringsUpTo({"a", "u"}, 1, MaxPart),
                            e \in DupEndings,
                            s \in StringsUpTo({"a", "o", "n"}, 2, MaxPart)}

RepInputs == StringsUpTo({"s", "o"}, 1, MaxRepLen)

RuleCorpus ==
  {<<"a", "a", "l", "i", "s">>,
   <<"b", "i", "b", "i", "l", "i">>,
   <<"c", "h", "e", "c", "h", "e", "c", "k">>,
   <<"s", "p", "l", "i", "s", "p", "l", "i", "t">>,
   <<"p", "a", "m", "i", "g", "a", "y">>,
   <<"p", "a", "m", "i", "m", "i", "g", "a", "y">>,
   <<"t", "a", "m", "n", "i", "n">>,
   <<"b", "u", "k", "s", "a", "n">>,
   <<"a", "n", "o", "-", "a", "n", "o">>,
   <<"a", "n", "u", "-", "a", "n", "o">>,
   <<"p", "a", "n", "g", "a", "-", "p", "a", "n", "g", "a", "k", "o">>,
   <<"i", "b", "a", "'", "t", "-", "i", "b", "a">>,
   <<"l", "a", "r", "u", "n", "g", "-", "l", "a", "r", "o">>,
   <<"a", "t", "i", "n", "g", "-", "a", "t", "i", "n">>,
   <<"h", "a", "p", "u", "n", "g", "-", "h", "a", "p", "o", "n">>,
   <<"l", "i", "b", "u", "t", "-", "l", "i", "b", "o">>}

RuleInputs ==
  StemInputs \cup PreInputs \cup SufInputs \cup DupInputs \cup RepInputs
  \cup RuleCorpus

\* the lexicons of the rules that take one: none, the empty list, and lists
\* of words that the vowel-loss and metathesis probes of the tokens reach
RuleLexWords ==
  {<<"a", "k", "i", "n">>, <<"a", "k", "n">>, <<"a", "n", "a", "k">>,
   <<"t", "a", "n", "i", "m">>, <<"b", "u", "k", "a", "s">>}

RuleLexicons ==
  {NoLexicon, Lexicon({}), Lexicon(RuleLexWords),
   Lexicon({<<"a", "k", "i", "n">>, <<"t", "a", "n", "i", "m">>})}

NoStem == Stem(<<>>)

Init ==
  /\ \/ raw \in Generated /\ valid_words \in Lexicons
     \/ \E c \in Corpus : raw = c.raw /\ valid_words = c.lex
     \/ raw \in SufInputs /\ valid_words \in RuleLexicons
  /\ token = <<>>
  /\ stems = {}
  /\ stage = 0
  /\ pc = "start"
  /\ candidates = {}
  /\ result = NoStem
  /\ ret = "unset"

----------------------------------------------------------------------------
(* get_stem and get_stem_candidates, step by step.                         *)

\* get_stem line 60, get_stem_candidates lines 94-97
GetStem ==
  /\ pc = "start"
  /\ token' = lower(strip(raw))
  /\ stems' = {Stem(token')}
  /\ stage' = 1
  /\ pc' = "cascade"
  /\ UNCHANGED <<raw, valid_words, candidates, result, ret>>

\* apply_stemming, lines 148-153: one rule over the whole frontier; done[t]
\* is what the rule's loop body does for the token t
ApplyStemming(done) ==
  LET E == [t \in stems |-> FirstByText(done[t].out)]
  IN IF \E t \in stems : done[t].err
     THEN /\ pc' = "raised"
          /\ UNCHANGED <<stems, stage>>
     ELSE /\ \E ord \in Orders(ConflictTokens(E, stems)) :
               stems' = Update(stems, E, ord)
          /\ stage' = stage + 1
          /\ pc' = IF stage = Len(FUNCTIONS) THEN "filter" ELSE "cascade"

Rule(f) ==
  /\ pc = "cascade"
  /\ FUNCTIONS[stage] = f
  /\ UNCHANGED <<raw, valid_words, token, candidates, result, ret>>

StemDup ==
  Rule("stem_dup") /\ ApplyStemming([t \in stems |-> stem_dup_token(t)])

\* stem_pre run again, in the same stage, over the stems it has produced
StemPre_over_own_stems ==
  /\ Rule("stem_pre")
  /\ ApplyStemming(
       [t \in stems |->
          LET once == stem_pre_token(t)
          IN Collect(<<once>>
                     \o [i \in 1..Len(once.out) |-> stem_pre_token(once.out[i])])])

StemPre ==
  Rule("stem_pre") /\ ApplyStemming([t \in stems |-> stem_pre_token(t)])

StemRep ==
  Rule("stem_rep") /\ ApplyStemming([t \in stems |-> stem_rep_token(t)])

StemInf ==
  Rule("stem_inf") /\ ApplyStemming([t \in stems |-> stem_inf_token(t)])

StemSuf ==
  /\ Rule("stem_suf")
  /\ ApplyStemming([t \in stems |-> stem_suf_token(t, valid_words)])

\* get_stem_candidates, lines 114-116: the stems that are valid and acceptable
acceptable_candidates_unshaped(F, lex) == {c \in F : is_valid_truthy(c.text, lex)}

acceptable_candidates(F, lex) ==
  {c \in F : is_valid_truthy(c.text, lex) /\ is_acceptable(c.text)}

\* get_stem_candidates, lines 114-119 (the list is held as the set of its
\* elements; its order is that of sort_candidates)
GetStemCandidates ==
  /\ pc = "filter"
  /\ LET kept == acceptable_candidates(stems, valid_words)
     IN candidates' = IF kept # {} THEN kept ELSE {Stem(token)}
  /\ pc' = "select"
  /\ UNCHANGED <<raw, valid_words, token, stems, stage, result, ret>>

\* get_stem, lines 64-80: the stems the selector can return
get_stem_returns(cs, tok) ==
  LET others == {c \in cs : c.text # tok}
  IN IF others = {} THEN {Stem(tok)}
     ELSE sort_candidates_first(Selected(others))

\* get_stem, lines 64-80: the selector
SelectStem ==
  /\ pc = "select"
  /\ result' \in get_stem_returns(candidates, token)
  /\ pc' = "done"
  /\ UNCHANGED <<raw, valid_words, token, stems, stage, candidates, ret>>

Next ==
  \/ GetStem
  \/ StemDup
  \/ StemPre
  \/ StemRep
  \/ StemInf
  \/ StemSuf
  \/ GetStemCandidates
  \/ SelectStem

Spec == Init /\ [][Next]_vars

----------------------------------------------------------------------------
(* The helpers of validation.py called on their own, as the tests of       *)
(* tests/test_stemmer_helpers.py call them: on every generated token.      *)

InitHelpers ==
  /\ raw \in Generated
  /\ valid_words \in Lexicons
  /\ token = raw
  /\ stems = {}
  /\ stage = 0
  /\ pc = "helper"
  /\ candidates = {}
  /\ result = NoStem
  /\ ret = "unset"

\* is_valid(token, valid_words): the token, or False
IsValid ==
  /\ pc = "helper"
  /\ ret' = IF is_valid(token, valid_words) THEN "token" ELSE "False"
  /\ pc' = "is_valid"
  /\ UNCHANGED <<raw, valid_words, token, stems, stage, candidates, result>>

\* is_acceptable(token): the token, or False; token[0] raises on ""
IsAcceptable ==
  /\ pc = "helper"
  /\ ret' = IF token = <<>> THEN "IndexError"
            ELSE IF is_acceptable(token) THEN "token" ELSE "False"
  /\ pc' = "is_acceptable"
  /\ UNCHANGED <<raw, valid_words, token, stems, stage, candidates, result>>

NextHelpers ==
  \/ IsValid
  \/ IsAcceptable

SpecHelpers == InitHelpers /\ [][NextHelpers]_vars

----------------------------------------------------------------------------
(* The rules of stemmer.py called on their own, each on the set of one     *)
(* unannotated token, as a caller of stem_pre({Stem(w)}) does.  The tokens *)
(* are built from the parts the rules look for: a prefix and a remainder,  *)
(* a remainder and a suffix, two hyphenated parts, a run of repeated       *)
(* letters.                                                                *)

InitRules ==
  /\ raw \in RuleInputs
  /\ valid_words \in RuleLexicons
  /\ token = raw
  /\ stems = {}
  /\ stage = 0
  /\ pc = "rule"
  /\ candidates = {}
  /\ result = NoStem
  /\ ret = "unset"

\* f({Stem(token)}): the set the rule returns, or the IndexError it raises
CallRule(f, done) ==
  /\ pc = "rule"
  /\ pc' = IF done.err THEN "raised" ELSE f
  /\ stems' = IF done.err THEN {} ELSE FirstByText(done.out)
  /\ UNCHANGED <<raw, valid_words, token, stage, candidates, result, ret>>

CallStemPre == CallRule("stem_pre", stem_pre_token(Stem(token)))

CallStemInf == CallRule("stem_inf", stem_inf_token(Stem(token)))

CallStemSuf == CallRule("stem_suf", stem_suf_token(Stem(token), valid_words))

CallStemRep == CallRule("stem_rep", stem_rep_token(Stem(token)))

CallStemDup == CallRule("stem_dup", stem_dup_token(Stem(token)))

CallStemVowelLoss ==
  CallRule("stem_vowel_loss", Emit(stem_vowel_loss(Stem(token), valid_words)))

NextRules ==
  \/ CallStemPre
  \/ CallStemInf
  \/ CallStemSuf
  \/ CallStemRep
  \/ CallStemDup
  \/ CallStemVowelLoss

SpecRules == InitRules /\ [][NextRules]_vars

----------------------------------------------------------------------------
(* The claims.                                                             *)

Alphabet == Range(VOWELS) \cup Range(CONSONANTS)

\* the filtered candidate set, input token removed
Others == {c \in candidates : c.text # token}

Transformed(c) ==
  c.phoneme_change # "" \/ c.assimilation # "" \/ c.vowel_loss # ""
  \/ c.metathesis

Contracted(c) == c.contraction # None

Plain(c) == ~Transformed(c) /\ ~Contracted(c)

Annotated(c) ==
  c.pre # None \/ c.inf # None \/ c.suf # None \/ c.rep # None
  \/ c.dup # None \/ c.contraction # None \/ Transformed(c)

\* score = |pre| + |inf| + |suf| + |rep| + |dup|, absent counted as 0
ClaimScore(c) == Len(c.pre) + Len(c.inf) + Len(c.suf) + Len(c.rep) + Len(c.dup)

InLexicon(text) == ~valid_words.absent /\ text \in valid_words.words

\* C1: runtime stemming never raises: get_stem and get_stem_candidates
\* never end in an IndexError, whatever the input token and the lexicon.
\* The code raises in stem_pre, e.g. on "par" and on "pa-".
C1_NeverRaises == pc # "raised"

\* C2: get_stem returns the normalised input token itself or a candidate of
\* the cascade frontier that passes is_valid and is_acceptable; with no
\* lexicon the result is acceptable or equal to the token.
C2_ResultValidAcceptable ==
  pc = "done" =>
    /\ \/ result = Stem(token)
       \/ /\ result \in stems
          /\ result.text # <<>>
          /\ is_valid(result.text, valid_words)
          /\ is_acceptable(result.text)
    /\ valid_words.absent =>
         result.text = token \/ is_acceptable(result.text)

\* a candidate was returned under a lexicon while the frontier held stems
\* the filter rejected
C2_Witness ==
  /\ pc = "done"
  /\ result.text # token
  /\ InLexicon(result.text)
  /\ \E c \in stems : c.text # token /\ c \notin candidates

\* C3: the returned stem carries a transformation or a contraction only if
\* no filtered candidate (input token removed) is free of both; and when
\* none is free of both but some candidate has no contraction, the
\* returned stem has no contraction.
C3_PreferenceOrder ==
  pc = "done" =>
    /\ (Transformed(result) \/ Contracted(result)) =>
         ~\E c \in Others : Plain(c)
    /\ ((~\E c \in Others : Plain(c)) /\ (\E c \in Others : ~Contracted(c))) =>
         ~Contracted(result)

\* a transformed stem without contraction was returned although a
\* contracted candidate without transformation was there
C3_Witness ==
  /\ pc = "done"
  /\ Transformed(result)
  /\ ~Contracted(result)
  /\ \E c \in Others : Contracted(c) /\ ~Transformed(c)

\* C4: among the candidates of the preference class get_stem selects from,
\* the returned candidate has the maximum score.
C4_MaximumScore ==
  (pc = "done" /\ Others # {}) =>
    /\ result \in Selected(Others)
    /\ \A c \in Selected(Others) : ClaimScore(result) >= ClaimScore(c)

\* the class held a candidate of a lower score than the returned one
C4_Witness ==
  /\ pc = "done"
  /\ Others # {}
  /\ \E c \in Selected(Others) : ClaimScore(c) < ClaimScore(result)

\* C5, as claimed: for every word w of the lexicon, get_stem(w, lexicon)
\* returns w itself.
C5_IdempotenceOnStems ==
  (pc = "done" /\ InLexicon(token)) => result.text = token

\* C5, amended: for a word w of the lexicon, get_stem returns w itself
\* exactly when the frontier holds no other candidate that is in the
\* lexicon and acceptable; otherwise it returns one of those candidates.
C5_IdempotenceUnlessOtherWord ==
  (pc = "done" /\ InLexicon(token)) =>
    LET known == {c \in stems : c.text # token /\ InLexicon(c.text)
                                  /\ is_acceptable(c.text)}
    IN /\ result.text = token <=> known = {}
       /\ result.text # token => result \in known

\* a lexicon word came back as itself although the rules had produced
\* other stems from it
C5_Witness ==
  /\ pc = "done"
  /\ InLexicon(token)
  /\ result.text = token
  /\ \E c \in stems : c.text # token

\* C6: determinism: the stem get_stem returns is a function of the token,
\* the lexicon and the affix lists, whatever the order in which the sets
\* are iterated and score ties are ordered: once the candidates are
\* filtered, one stem only can be returned.
C6_Determinism ==
  pc = "select" => Cardinality(get_stem_returns(candidates, token)) <= 1

\* C7: a returned stem whose text differs from the normalised input has at
\* least one annotation set.
C7_AnnotationConsistency ==
  (pc = "done" /\ result.text # token) => Annotated(result)

\* a stem was returned whose only annotation is the repetition
C7_Witness ==
  /\ pc = "done"
  /\ result.text # token
  /\ result.rep # None
  /\ result.pre = None /\ result.inf = None /\ result.suf = None
  /\ result.dup = None /\ Plain(result)

\* C8, as claimed: a token with a character outside the alphabet is
\* returned untouched by get_stem.
C8_NonAlphabetUntouched ==
  (pc = "done" /\ \E i \in 1..Len(token) : token[i] \notin Alphabet) =>
    result = Stem(token)

\* C8, amended: a token with no character of the alphabet (no vowel and no
\* consonant) is returned untouched by get_stem, and get_stem does not
\* raise on it.
C8_NoAlphabetUntouched ==
  (pc # "start" /\ \A i \in 1..Len(token) : token[i] \notin Alphabet) =>
    /\ pc # "raised"
    /\ pc = "done" => result = Stem(token)

\* a token without letters came back untouched although a rule had
\* produced a stem from it
C8_Witness ==
  /\ pc = "done"
  /\ token # <<>>
  /\ \A i \in 1..Len(token) : token[i] \notin Alphabet
  /\ \E c \in stems : c.text # token
  /\ result = Stem(token)

\* C9: is_acceptable accepts a non-empty token exactly when its first
\* character is a vowel and (length = 2, or length >= 3 and some character
\* is a consonant), or its first character is a consonant and (length = 3,
\* or length >= 4 and some character is a vowel); length 1, all-vowel of
\* length >= 3, all-consonant of length >= 4 and a first character in
\* neither set are rejected.
C9_IsAcceptableShape ==
  (pc = "is_acceptable" /\ token # <<>>) =>
    LET n == Len(token)
        vowel(c) == c \in Range(VOWELS)
        consonant(c) == c \in Range(CONSONANTS)
        some_vowel == \E i \in 1..n : vowel(token[i])
        some_consonant == \E i \in 1..n : consonant(token[i])
    IN /\ ret = "token" <=>
            \/ vowel(token[1]) /\ (n = 2 \/ (n >= 3 /\ some_consonant))
            \/ consonant(token[1]) /\ (n = 3 \/ (n >= 4 /\ some_vowel))
       /\ n = 1 => ret = "False"
       /\ (n >= 3 /\ \A i \in 1..n : vowel(token[i])) => ret = "False"
       /\ (n >= 4 /\ \A i \in 1..n : consonant(token[i])) => ret = "False"
       /\ (~vowel(token[1]) /\ ~consonant(token[1])) => ret = "False"

\* a consonant-initial token of 4 characters with a vowel was accepted
C9_Witness ==
  /\ pc = "is_acceptable"
  /\ ret = "token"
  /\ Len(token) = 4
  /\ token[1] \in Range(CONSONANTS)

\* C10: is_valid returns the token if and only if the lexicon is absent or
\* the token is a member of it; a present lexicon, also an empty one,
\* rejects a non-member.
C10_IsValidIffAbsentOrMember ==
  pc = "is_valid" =>
    (ret = "token" <=> (valid_words.absent \/ token \in valid_words.words))

----------------------------------------------------------------------------
(* Suffix with metathesis and vowel loss.                                  *)

\* s with its last two characters swapped
SwapLast(s) == DropLast(s, 2) \o <<s[Len(s)], s[Len(s) - 1]>>

\* the words r: the swapped s with a vowel before its last character
MetathesisRoots(s) ==
  {DropLast(SwapLast(s), 1) \o <<v, SwapLast(s)[Len(s)]>> : v \in Range(VOWELS)}

\* the remainders s of the token before a suffix f, |s| > 2, s acceptable
\* and ending in two consonants, as pairs <<s, f>>
ClusterSplits ==
  {<<DropLast(token, Len(SUFFIXES[i])), SUFFIXES[i]>> :
     i \in {j \in 1..Len(SUFFIXES) :
              /\ EndsWith(token, SUFFIXES[j])
              /\ Len(token) - Len(SUFFIXES[j]) > 2
              /\ is_acceptable(DropLast(token, Len(SUFFIXES[j])))
              /\ is_consonant(Last(DropLast(token, Len(SUFFIXES[j])), 2))}}

\* C11, as claimed: for a token s + f, f a suffix, |s| > 2, s acceptable and
\* ending in two consonants, every acceptable word r (s with its last two
\* characters swapped and a vowel before the last) is among
\* get_stem_candidates(token, lexicon) when the lexicon holds r, and when
\* there is no lexicon.
C11_MetathesisRecovered ==
  pc = "select" =>
    \A sf \in ClusterSplits : \A r \in MetathesisRoots(sf[1]) :
      (is_acceptable(r) /\ (valid_words.absent \/ r \in valid_words.words))
        => r \in Texts(candidates)

\* C11, amended: r is among the candidates when the lexicon holds r and
\* does not hold the swapped s itself, and f is not a contraction that
\* stem_suf skips after s (f is "g" only after "n", and never 't or 'y,
\* which want a vowel before them).
C11_MetathesisRecoveredUnlessSwapKnown ==
  pc = "select" =>
    \A sf \in ClusterSplits : \A r \in MetathesisRoots(sf[1]) :
      ( /\ is_acceptable(r)
        /\ InLexicon(r)
        /\ ~InLexicon(SwapLast(sf[1]))
        /\ sf[2] \notin {<<"'", "t">>, <<"'", "y">>}
        /\ sf[2] = <<"g">> => sf[1][Len(sf[1])] = "n" )
        => \E c \in candidates :
             c.text = r /\ c.metathesis /\ c.vowel_loss # ""

\* a word of the lexicon was recovered from a suffixed token by metathesis
\* and vowel loss
C11_Witness ==
  /\ pc = "select"
  /\ \E sf \in ClusterSplits : \E c \in candidates :
       /\ c.text \in MetathesisRoots(sf[1])
       /\ InLexicon(c.text)
       /\ c.metathesis
       /\ c.vowel_loss # ""
       /\ c.suf = sf[2]

----------------------------------------------------------------------------
(* The frontier through the cascade.                                       *)

\* the records the rule of stage k emits from the tokens of the frontier F
Emitted(k, F) ==
  UNION {FirstByText(rule_token(FUNCTIONS[k], t, valid_words).out) : t \in F}

\* C12: the frontier only grows through the cascade: after each of the 7
\* stages every record that was in the frontier before the stage is still
\* in it, text and annotations, and the input token is in the frontier at
\* every stage.
C12_FrontierOnlyGrows ==
  /\ [](pc \in {"cascade", "filter", "select", "done"} => Stem(token) \in stems)
  /\ [][stems \subseteq stems' /\ (pc = "cascade" => stage' \in {stage, stage + 1})]_vars

\* a stage has run that derived again, with other annotations, a text the
\* frontier already held, and the frontier holds the older record
C12_Witness ==
  /\ pc \in {"cascade", "filter"}
  /\ stage > 1
  /\ \E c \in stems : \E d \in Emitted(stage - 1, stems) :
       /\ d.text = c.text
       /\ d # c
       /\ c \notin Emitted(stage - 1, stems)

----------------------------------------------------------------------------
(* The rules on their own.                                                 *)

\* the token of a stem_suf call ends in "g" after a remainder
EndsInG == pc = "stem_suf" /\ Len(token) > 1 /\ token[Len(token)] = "g"

GContracted(c) == c.contraction = <<"g">>

\* C13, as claimed: for the suffix "g" with remainder s, stem_suf emits the
\* contraction candidate s (contraction = "g") only when s[-1] # "n"; when
\* s[-1] = "n" neither s nor a candidate derived from it is emitted for that
\* suffix.
C13_GContractionAfterNonN ==
  EndsInG =>
    LET s == DropLast(token, 1)
    IN /\ (\E c \in stems : GContracted(c)) => s[Len(s)] # "n"
       /\ s[Len(s)] = "n" => ~\E c \in stems : GContracted(c)

\* C13, amended: stem_suf emits the contraction candidate s (contraction =
\* "g") exactly when s[-1] = "n"; when s[-1] # "n" the suffix is skipped and
\* nothing is emitted for it (the token, ending in "g" after another letter,
\* matches no other suffix: nothing is emitted at all).
C13_GContractionAfterN ==
  EndsInG =>
    LET s == DropLast(token, 1)
    IN /\ s[Len(s)] = "n" => [Stem(s) EXCEPT !.contraction = <<"g">>] \in stems
       /\ s[Len(s)] # "n" => stems = {}
       /\ \A c \in stems : GContracted(c) =>
            /\ s[Len(s)] = "n"
            /\ Len(c.text) \in {Len(s), Len(s) + 1}

\* "g" was taken off a token in "ng" as a contraction of its own
C13_Witness ==
  /\ EndsInG
  /\ Len(token) > 2
  /\ token[Len(token) - 1] = "n"
  /\ [Stem(DropLast(token, 1)) EXCEPT !.contraction = <<"g">>] \in stems
  /\ \E c \in stems : c.contraction = <<"n", "g">>

\* the prefixes in "m" that the token of a stem_pre call starts with
MPrefixes ==
  {PREFIXES[i] : i \in {j \in 1..Len(PREFIXES) :
                          /\ pc = "stem_pre"
                          /\ EndsWith(PREFIXES[j], <<"m">>)
                          /\ StartsWith(token, PREFIXES[j])
                          /\ Len(token) > Len(PREFIXES[j])}}

\* what is left of the token after the prefix p (and a hyphen)
Remainder(p) ==
  LET s == From(token, Len(p))
  IN IF s[1] = "-" THEN Tail(s) ELSE s

\* l + s, as stem_pre tags it after the prefix p
BP(l, s, p) ==
  [Stem(<<l>> \o s) EXCEPT !.pre = p, !.assimilation = "b/p: " \o l]

\* C14, as claimed: whenever stem_pre strips a prefix p ending in "m" from
\* a token and leaves s, it emits "b" + s tagged "b/p: b" and "p" + s tagged
\* "b/p: p", whatever s.
C14_BPAlways ==
  \A p \in MPrefixes :
    /\ BP("b", Remainder(p), p) \in stems
    /\ BP("p", Remainder(p), p) \in stems

\* C14, amended: "b" + s and "p" + s are emitted exactly when s is
\* acceptable and starts with a vowel; after any other s no candidate with
\* an assimilation is emitted.
C14_BPAfterVowel ==
  \A p \in MPrefixes :
    LET s == Remainder(p)
    IN IF is_acceptable(s) /\ is_vowel(<<s[1]>>)
       THEN BP("b", s, p) \in stems /\ BP("p", s, p) \in stems
       ELSE \A c \in stems : c.assimilation = ""

\* a prefix in "m" came off a vowel-initial remainder, which was given "b"
\* and "p"
C14_Witness ==
  \E p \in MPrefixes :
    /\ is_vowel(<<Remainder(p)[1]>>)
    /\ BP("b", Remainder(p), p) \in stems
    /\ BP("p", Remainder(p), p) \in stems

\* the positions of the hyphens of the token
Hyphens == {i \in 1..Len(token) : token[i] = "-"}

\* a stem_dup call on a token of two parts, each longer than 1
TwoParts ==
  /\ pc = "stem_dup"
  /\ Cardinality(Hyphens) = 1
  /\ \A h \in Hyphens : h > 2 /\ h < Len(token) - 1

First == SubSeq(token, 1, (CHOOSE h \in Hyphens : TRUE) - 1)

Second == SubSeq(token, (CHOOSE h \in Hyphens : TRUE) + 1, Len(token))

\* s with "o" for its k-th character from the end, where that is "u"
UToO(s, k) ==
  IF Len(s) >= k /\ s[Len(s) - k + 1] = "u"
  THEN {[s EXCEPT ![Len(s) - k + 1] = "o"]}
  ELSE {}

\* neither the exact match nor the repeated first syllables
PlainMismatch ==
  /\ First # Second
  /\ ~(Len(First) > 2 /\ Len(Second) > 4 /\ StartsWith(Second, First))

\* C15: for a token first-second (one inner hyphen, both parts longer than
\* 1, first # second, second not first repeated and extended): if first with
\* its last or its second-to-last "u" replaced by "o" equals second, then
\* stem_dup emits second with dup = second and phoneme_change = "dup: o/u",
\* also when first has exactly 2 characters.  The code does not for a first
\* part of 2 characters ending in "u", e.g. "au-ao".
C15_OUOnFirst ==
  (TwoParts /\ PlainMismatch /\ Second \in UToO(First, 1) \cup UToO(First, 2)) =>
    [Stem(Second) EXCEPT !.dup = Second, !.phoneme_change = "dup: o/u"] \in stems

\* second is first without its contraction, no letter replaced
DirectContraction ==
  \/ /\ Last(First, 2) \in {<<"n", "g">>, <<"'", "t">>}
     /\ DropLast(First, 2) = Second
  \/ /\ Last(First, 2) = <<"n", "g">>
     /\ DropLast(First, 1) = Second
  \/ /\ Last(First, 1) = <<"t">>
     /\ DropLast(First, 1) = Second

\* second is first with a "u" replaced by "o", no contraction taken off
PlainOU == Second \in UToO(First, 1) \cup UToO(First, 2)

\* C16: every candidate stem_dup emits through a match that relies on
\* replacing "u" by "o" (the plain o/u case and the o/u variants of the
\* contractions) carries phoneme_change = "dup: o/u", and every candidate
\* emitted through a contraction match carries a contraction.  The code
\* leaves phoneme_change unset in the o/u variant of the two-character
\* contraction, e.g. "larung-laro".
C16_OUMarked ==
  (TwoParts /\ PlainMismatch) =>
    \A c \in stems :
      /\ ~DirectContraction => c.phoneme_change = "dup: o/u"
      /\ ~PlainOU => c.contraction # None

\* the patterns of stem_rep in the listed order, each as the number of
\* characters it takes off when it matches the token t, 0 when it does not
RepPatterns(t) ==
  LET n == Len(t)
      C(s) == is_consonant(s)
      V(s) == is_vowel(s)
      at(i) == <<t[i + 1]>>
      part(a, b) == Slice(t, a, b)
      hit(cond, k) == IF cond THEN k ELSE 0
  IN << hit(n > 2 /\ t[1] = t[2] /\ V(part(0, 2)), 1),
        hit(n > 4 /\ part(0, 2) = part(2, 4) /\ C(at(0)), 2),
        hit(n > 5 /\ t[1] = t[3] /\ t[2] = t[5] /\ C(at(0)) /\ V(at(1)), 2),
        hit(n > 5 /\ part(0, 2) = part(2, 4) /\ C(part(0, 2)) /\ V(at(4)), 2),
        hit(n > 5 /\ part(0, 2) = part(3, 5) /\ C(part(0, 2)) /\ V(at(2)), 3),
        hit(n > 6 /\ t[1] = t[3] /\ t[2] = t[6] /\ C(at(0)) /\ V(at(1)), 2),
        hit(n > 6 /\ part(0, 2) = part(2, 4) /\ C(part(0, 2)) /\ V(at(5)), 2),
        hit(n > 6 /\ part(0, 2) = part(3, 5) /\ t[3] = t[7] /\ C(part(0, 2))
              /\ V(at(6)), 3),
        hit(n > 6 /\ part(0, 3) = part(3, 6) /\ C(part(0, 3)) /\ V(at(6)), 3),
        hit(n > 6 /\ part(0, 4) = part(4, 8) /\ C(part(0, 3)) /\ V(at(3)), 4) >>

\* the candidate of the first pattern that matches, if any
FirstMatch(t) ==
  LET ps == RepPatterns(t)
      hits == {i \in 1..Len(ps) : ps[i] > 0}
  IN IF hits = {} THEN {}
     ELSE LET k == ps[CHOOSE i \in hits : \A j \in hits : i <= j]
          IN {[Stem(From(t, k)) EXCEPT !.rep = Slice(t, 0, k)]}

\* C17: stem_rep emits at most one candidate per token, the result of the
\* first pattern that matches in the listed order: a later pattern never
\* replaces the result of an earlier one.  In the code the patterns of a
\* 3-consonant cluster are tried after the others have matched, and replace
\* their result, e.g. on "sssssso".
C17_FirstMatchWins == pc = "stem_rep" => stems = FirstMatch(token)

\* the forms stem_vowel_loss probes: t + v, and t[:-1] + v + t[-1]
Probes(t) ==
  {t \o <<v>> : v \in Range(VOWELS)}
  \cup {DropLast(t, 1) \o <<v, t[Len(t)]>> : v \in Range(VOWELS)}

\* C18: stem_vowel_loss is not speculative: every candidate it emits is one
\* of the probed forms and a valid word of the lexicon it was called with
\* (any word, when it was called with no lexicon).  Called with the empty
\* list the code emits every probed form.
C18_VowelLossValid ==
  pc = "stem_vowel_loss" =>
    \A c \in stems :
      /\ c.text \in Probes(token)
      /\ c.vowel_loss # ""
      /\ valid_words.absent \/ c.text \in valid_words.words

----------------------------------------------------------------------------
(* The order of the affix lists.                                           *)

\* what a rule's set holds of a token's stems, and whether the rule raises
Outcome(done) == <<FirstByText(done.out), done.err>>

\* the rule about to run gives every token of the frontier the same stems,
\* whatever the order of its affix list
SameStemsInAnyOrder ==
  pc = "cascade" =>
    \A t \in stems :
      /\ FUNCTIONS[stage] = "stem_pre" =>
           \A o \in PrefixOrders :
             Outcome(stem_pre_in(t, o)) = Outcome(stem_pre_token(t))
      /\ FUNCTIONS[stage] = "stem_inf" =>
           \A o \in InfixOrders :
             Outcome(stem_inf_in(t, o)) = Outcome(stem_inf_token(t))
      /\ FUNCTIONS[stage] = "stem_suf" =>
           \A o \in SuffixOrders :
             Outcome(stem_suf_in(t, o, valid_words))
               = Outcome(stem_suf_token(t, valid_words))

\* C19: the order of the affix lists does not affect the result: permuting
\* the prefix, infix and suffix lists leaves the candidates of the cascade
\* unchanged, and leaves the stem get_stem returns unchanged.  The order
\* of a list is the order in which a rule fills its set, and with it the
\* order of candidates of equal score: the code returns one stem or another
\* of them, e.g. for "akng".
C19_AffixOrderIrrelevant ==
  /\ SameStemsInAnyOrder
  /\ pc = "select" =>
       \A c, d \in get_stem_returns(candidates, token) : c.text = d.text

----------------------------------------------------------------------------
(* One pass of each stage.                                                 *)

\* every record the rule of stage k gives for the tokens of F
Products(k, F) ==
  UNION {Range(rule_token(FUNCTIONS[k], t, valid_words).out) : t \in F}

\* the records derived from the input token by the first k stages, each
\* stage applied once, in order, to what the stages before it had derived
RECURSIVE Derived(_)
Derived(k) ==
  IF k = 0 THEN {Stem(token)}
  ELSE Derived(k - 1) \cup Products(k, Derived(k - 1))

\* the input token is p1 + p2 + x for prefixes p1 and p2: <<p1, p2, x>>
StackedPrefixes ==
  {<<pp[1], pp[2], From(token, Len(pp[1]) + Len(pp[2]))>> :
     pp \in {qq \in Range(PREFIXES) \X Range(PREFIXES) :
               /\ StartsWith(token, qq[1] \o qq[2])
               /\ Len(token) > Len(qq[1]) + Len(qq[2])}}

\* C20: each stage runs once, over the frontier as it was when the stage
\* began, and not over the stems it produces: every record of the frontier
\* is derived from the input token by the stages run so far, each applied
\* once and in the fixed order (so at most one prefix, one infix and one
\* suffix are taken off, and no suffix before a prefix), and the cascade
\* steps through the stages one by one.
C20_OnePassPerStage ==
  /\ [](pc \in {"cascade", "filter", "select", "done"} =>
          stems \subseteq Derived(stage - 1))
  /\ [][pc = "cascade" =>
          /\ pc' = "raised" \/ stage' = stage + 1
          /\ \A c \in stems' \ stems : c \in Products(stage, stems)]_vars

\* the cascade has run over a token of two stacked prefixes: the frontier
\* holds the token less its first prefix, and not the token less both
C20_Witness ==
  /\ pc = "filter"
  /\ \E sp \in StackedPrefixes :
       /\ [Stem(sp[2] \o sp[3]) EXCEPT !.pre = sp[1]] \in stems
       /\ sp[3] \notin Texts(stems)
       /\ Len(sp[3]) > 1

====
